---- MODULE Spec2Model ----
(***************************************************************************)
(* Chunked file retrieval and line indexing of the FountainAI GitHub       *)
(* proxy (src/main.py), together with the log-push route                   *)
(* (src/app/routers/logs.py, src/app/services/logging_service.py).         *)
(*                                                                         *)
(* One request is followed from its arrival to its response.  Every call   *)
(* to the upstream (metadata fetch, chunk fetch) is one step, so that the  *)
(* upstream can change between two calls of the same request.              *)
(*                                                                         *)
(* A file is a sequence of bytes over the alphabet Bytes:                  *)
(*   "a" an ASCII letter, "n" LF, "r" CR,                                  *)
(*   "H" "T" the lead and continuation byte of a two-byte UTF-8 character. *)
(* Decoded text is a sequence of characters "a", "n", "r", "U".            *)
(***************************************************************************)
EXTENDS Integers, Sequences, FiniteSets, TLC

\* ------------------------------------------------------------- bounds ---
MaxLen == 3
MaxChunk == 3
MaxLine == 2
MaxReplace == 1

\* ------------------------------------------------------- text helpers ---
Bytes == {"a", "n", "r", "H", "T"}

Min(x, y) == IF x < y THEN x ELSE y

\* bytes.decode("utf-8"): fails on a lead byte without its continuation
\* byte and on a continuation byte without its lead byte.
RECURSIVE DecodeFrom(_, _, _)
DecodeFrom(b, i, acc) ==
  IF i > Len(b) THEN [ok |-> TRUE, text |-> acc]
  ELSE IF b[i] = "H"
       THEN IF i < Len(b) /\ b[i + 1] = "T"
            THEN DecodeFrom(b, i + 2, Append(acc, "U"))
            ELSE [ok |-> FALSE, text |-> <<>>]
  ELSE IF b[i] = "T" THEN [ok |-> FALSE, text |-> <<>>]
  ELSE DecodeFrom(b, i + 1, Append(acc, b[i]))

Decode(b) == DecodeFrom(b, 1, <<>>)

\* str.splitlines: LF, CR and CR LF end a line; a non-empty final segment
\* without a terminator is a line too.
RECURSIVE SplitFrom(_, _, _, _, _)
SplitFrom(s, i, cur, acc, keepends) ==
  IF i > Len(s) THEN (IF cur = <<>> THEN acc ELSE Append(acc, cur))
  ELSE IF s[i] = "r" /\ i < Len(s) /\ s[i + 1] = "n"
       THEN SplitFrom(s, i + 2, <<>>,
                      Append(acc, IF keepends THEN cur \o <<"r", "n">> ELSE cur),
                      keepends)
  ELSE IF s[i] \in {"n", "r"}
       THEN SplitFrom(s, i + 1, <<>>,
                      Append(acc, IF keepends THEN Append(cur, s[i]) ELSE cur),
                      keepends)
  ELSE SplitFrom(s, i + 1, Append(cur, s[i]), acc, keepends)

splitlines(s, keepends) == SplitFrom(s, 1, <<>>, <<>>, keepends)

\* str.endswith("\n")
endswith_newline(s) == Len(s) > 0 /\ s[Len(s)] = "n"

\* list slicing lines[lo:hi] for lo >= 0, hi >= 0
Slice(ls, lo, hi) ==
  IF lo + 1 > Min(hi, Len(ls)) THEN <<>> ELSE SubSeq(ls, lo + 1, Min(hi, Len(ls)))

\* process_chunk of src/main.py: lines.pop() on an empty list raises.
process_chunk(chunk, carry) ==
  LET content == carry \o chunk
      lines == splitlines(content, TRUE)
  IN IF ~endswith_newline(content)
     THEN IF lines = <<>>
          THEN [ok |-> FALSE, lines |-> <<>>, carry_over |-> <<>>]
          ELSE [ok |-> TRUE, lines |-> SubSeq(lines, 1, Len(lines) - 1),
                carry_over |-> lines[Len(lines)]]
     ELSE [ok |-> TRUE, lines |-> lines, carry_over |-> <<>>]

\* The files of the upstream: every decodable byte string up to MaxLen bytes.
Files ==
  {f \in UNION {[1..n -> Bytes] : n \in 0..MaxLen} : Decode(f).ok}

ChunkSizes == 1..MaxChunk

\* -------------------------------------------------------------- state ---
VARIABLES
  blobs,          \* upstream: every version of the file, by content hash (index)
  rangeSupport,   \* upstream: TRUE if the blob endpoint honours Range headers
  CHUNK_SIZE,     \* chunk size of the deployment (src/main.py:28), scaled down
  op,             \* route of the request
  end_param,      \* query parameter end_line as received (None when omitted)
  start_line,     \* query parameter start_line
  end_line,       \* local end_line of get_lines_by_range
  pc,             \* position of the request handler
  file_size,      \* local file_size of the running scan
  sha,            \* local sha of the running scan
  start_byte,     \* local start_byte of the running scan
  total_lines,    \* local total_lines
  carry_over,     \* local carry_over of count_total_lines
  total_content,  \* local total_content of get_file_content
  response,       \* the response sent to the client
  metaLog,        \* history: metadata fetches of the request
  chunkLog,       \* history: chunk fetches of the request
  yielded,        \* history: lines produced by process_chunk in the count scan
  fetched,        \* history: decoded text of the chunks of the count scan
  failedFetch,    \* history: a chunk fetch of the request has failed
  is_git_repo,    \* what os.path.exists(".git") answered ("unknown" before)
  gitLog          \* history: shell commands run by commit_and_push_logs

vars == <<blobs, rangeSupport, CHUNK_SIZE, op, end_param, start_line, end_line, pc,
          file_size, sha, start_byte, total_lines, carry_over, total_content,
          response, metaLog, chunkLog, yielded, fetched, failedFetch,
          is_git_repo, gitLog>>

None == 0 - 1

\* status used for "no HTTP response at all" (requests raises RequestException)
ConnError == 0

MetaStatuses == {200, 404, 503, ConnError}

NoResponse ==
  [status |-> 0, kind |-> "none", max_lines |-> None, lines |-> <<>>,
   content |-> <<>>, detail |-> ""]

ErrorResponse(code, text) ==
  [status |-> code, kind |-> "error", max_lines |-> None, lines |-> <<>>,
   content |-> <<>>, detail |-> text]

CurrentSha == Len(blobs)

Init ==
  /\ blobs \in {<<f>> : f \in Files}
  /\ rangeSupport \in BOOLEAN
  /\ CHUNK_SIZE \in ChunkSizes
  /\ op = "none"
  /\ end_param = None
  /\ start_line = 0
  /\ end_line = None
  /\ pc = "idle"
  /\ file_size = 0
  /\ sha = 0
  /\ start_byte = 0
  /\ total_lines = 0
  /\ carry_over = <<>>
  /\ total_content = <<>>
  /\ response = NoResponse
  /\ metaLog = <<>>
  /\ chunkLog = <<>>
  /\ yielded = <<>>
  /\ fetched = <<>>
  /\ failedFetch = FALSE
  /\ is_git_repo = "unknown"
  /\ gitLog = <<>>

\* ----------------------------------------------------------- upstream ---
\* GET repos/{owner}/{repo}/contents/{path}: size and hash of the current
\* version.
UpstreamMetadata(status) ==
  [status_code |-> status, size |-> Len(blobs[CurrentSha]), sha |-> CurrentSha]

\* GET .../git/blobs/{sha} with Range: bytes=start..start+size-1.
\* A server that honours the range answers 206 with the slice, a server
\* that ignores it answers 200 with the whole blob.
UpstreamBlob(h, start, size, fail) ==
  IF fail THEN [status_code |-> 500, content |-> <<>>]
  ELSE IF ~rangeSupport THEN [status_code |-> 200, content |-> blobs[h]]
  ELSE IF start >= Len(blobs[h]) THEN [status_code |-> 416, content |-> <<>>]
  ELSE [status_code |-> 206,
        content |-> SubSeq(blobs[h], start + 1, Min(start + size, Len(blobs[h])))]

\* A new version of the file is committed upstream while a request runs.
Edits(f) == {f \o <<"n">>, <<"a">>}

UpstreamReplace ==
  /\ pc \in {"count_meta", "count_loop", "content_meta", "content_loop"}
  /\ Len(blobs) <= MaxReplace
  /\ \E f \in Edits(blobs[CurrentSha]) : blobs' = Append(blobs, f)
  /\ UNCHANGED <<rangeSupport, CHUNK_SIZE, op, end_param, start_line, end_line, pc,
                 file_size, sha, start_byte, total_lines, carry_over,
                 total_content, response, metaLog, chunkLog, yielded, fetched,
                 failedFetch, is_git_repo, gitLog>>

\* ------------------------------------------------------------ helpers ---
\* Variant of github_request that reports every upstream failure as a 500.
github_request_500(status) ==
  [ok |-> status \in {200, 201, 204}, status_code |-> 500]

\* github_request: any status but 200, 201, 204 raises HTTPException with
\* the upstream status.
github_request(status) ==
  [ok |-> status \in {200, 201, 204}, status_code |-> status]

\* The handlers' reaction to a failed metadata fetch: a RequestException is
\* caught and turned into a 500, an HTTPException passes through.
MetadataError(status) ==
  IF status = ConnError
  THEN ErrorResponse(500, "error_info")
  ELSE ErrorResponse(github_request(status).status_code, "upstream")

\* Variant of get_file_chunk without the status check, decoding with
\* errors="ignore".
get_file_chunk_lenient(resp) ==
  [ok |-> TRUE,
   text |-> IF Decode(resp.content).ok THEN Decode(resp.content).text ELSE <<>>,
   detail |-> ""]

\* get_file_chunk: status check, then decoding of the body.
get_file_chunk(resp) ==
  IF resp.status_code # 206 /\ resp.status_code # 200
  THEN [ok |-> FALSE, text |-> <<>>, detail |-> "Error fetching file chunk."]
  ELSE LET d == Decode(resp.content)
       IN IF d.ok THEN [ok |-> TRUE, text |-> d.text, detail |-> ""]
          ELSE [ok |-> FALSE, text |-> <<>>, detail |-> "UnicodeDecodeError"]

\* Variant of the cursor step that takes the end of the range as exclusive
\* of one more byte.
NextOffsetSkipping(offset) == offset + CHUNK_SIZE + 1

\* start_byte += CHUNK_SIZE
NextOffset(offset) == offset + CHUNK_SIZE

\* Variant of the loop test that also enters the loop at the end of the file.
LoopInclusive(offset, size) == offset <= size

\* Variant of the loop test that leaves out the last chunk.
LoopStopsEarly(offset, size) == offset + CHUNK_SIZE < size

\* while start_byte < file_size
LoopContinues(offset, size) == offset < size

\* What the upstream did, whatever the code makes of it.
FetchIsBad(resp) ==
  \/ resp.status_code \notin {200, 206}
  \/ ~Decode(resp.content).ok

ChunkEntry(resp, scan) ==
  [sha |-> sha, start_byte |-> start_byte, size |-> file_size,
   status_code |-> resp.status_code, scan |-> scan]

MetaEntry(m, scan) ==
  [sha |-> m.sha, size |-> m.size, status_code |-> m.status_code, scan |-> scan]

\* get_lines_by_range: if start_line < 0 or start_line >= total_lines
StartOutOfRange(s, total) == s < 0 \/ s >= total

\* get_lines_by_range: if end_line is None or end_line > total_lines
ClampEnd(e, total) == IF e = None \/ e > total THEN total ELSE e

\* ----------------------------------------------------------- requests ---
Routes == {"max_lines", "lines", "content"}

StartRequestOf(o, s, e) ==
  /\ pc = "idle"
  /\ op' = o
  /\ end_param' = e
  /\ start_line' = s
  /\ end_line' = e
  /\ pc' = IF o = "content" THEN "content_meta" ELSE "count_meta"
  /\ UNCHANGED <<blobs, rangeSupport, CHUNK_SIZE, file_size, sha, start_byte,
                 total_lines, carry_over, total_content, response, metaLog,
                 chunkLog, yielded, fetched, failedFetch, is_git_repo, gitLog>>

StartRequest ==
  \E o \in Routes, s \in (0 - 1)..MaxLine, e \in {None} \cup 0..(MaxLine + 1) :
    /\ (o # "lines") => (s = 0 /\ e = None)
    /\ StartRequestOf(o, s, e)

\* GET .../max-lines
StartCount == StartRequestOf("max_lines", 0, None)

\* count_total_lines has returned total to its caller: get_max_lines
\* answers, get_lines_by_range validates the range and goes on to
\* get_file_content.
CountReturn(total) ==
  IF op = "max_lines"
  THEN /\ pc' = "done"
       /\ response' = [NoResponse EXCEPT !.status = 200, !.kind = "max_lines",
                                         !.max_lines = total]
       /\ end_line' = end_line
  ELSE IF StartOutOfRange(start_line, total)
  THEN /\ pc' = "error"
       /\ response' = ErrorResponse(400, "Start line is out of range.")
       /\ end_line' = end_line
  ELSE /\ pc' = "content_meta"
       /\ response' = response
       /\ end_line' = ClampEnd(end_line, total)

\* count_total_lines, lines 325-347: the metadata fetch.
CountMetadata ==
  /\ pc = "count_meta"
  /\ \E status \in MetaStatuses :
       LET m == UpstreamMetadata(status) IN
       /\ metaLog' = Append(metaLog, MetaEntry(m, "count"))
       /\ IF ~github_request(status).ok
          THEN /\ pc' = "error"
               /\ response' = MetadataError(status)
               /\ UNCHANGED <<file_size, sha, start_byte, total_lines,
                              carry_over, end_line>>
          ELSE /\ file_size' = m.size
               /\ sha' = m.sha
               /\ total_lines' = 0
               /\ carry_over' = <<>>
               /\ start_byte' = 0
               /\ IF LoopContinues(0, m.size)
                  THEN /\ pc' = "count_loop"
                       /\ UNCHANGED <<response, end_line>>
                  ELSE CountReturn(0)
  /\ UNCHANGED <<blobs, rangeSupport, CHUNK_SIZE, op, end_param, start_line,
                 total_content, chunkLog, yielded, fetched, failedFetch,
                 is_git_repo, gitLog>>

\* count_total_lines, lines 349-356: one turn of the loop.
CountChunk ==
  /\ pc = "count_loop"
  /\ \E fail \in BOOLEAN :
       LET resp == UpstreamBlob(sha, start_byte, CHUNK_SIZE, fail)
           chunk == get_file_chunk(resp)
           p == process_chunk(chunk.text, carry_over)
           total == total_lines + Len(p.lines)
           offset == NextOffset(start_byte)
       IN
       /\ chunkLog' = Append(chunkLog, ChunkEntry(resp, "count"))
       /\ failedFetch' = (failedFetch \/ FetchIsBad(resp))
       /\ IF ~chunk.ok
          THEN /\ pc' = "error"
               /\ response' = ErrorResponse(500, chunk.detail)
               /\ UNCHANGED <<start_byte, total_lines, carry_over, end_line,
                              yielded, fetched>>
          ELSE IF ~p.ok
          THEN /\ pc' = "error"
               /\ response' = ErrorResponse(500, "IndexError")
               /\ UNCHANGED <<start_byte, total_lines, carry_over, end_line,
                              yielded, fetched>>
          ELSE /\ total_lines' = total
               /\ carry_over' = p.carry_over
               /\ start_byte' = offset
               /\ yielded' = yielded \o p.lines
               /\ fetched' = fetched \o chunk.text
               /\ IF LoopContinues(offset, file_size)
                  THEN /\ pc' = "count_loop"
                       /\ UNCHANGED <<response, end_line>>
                  ELSE CountReturn(total)
  /\ UNCHANGED <<blobs, rangeSupport, CHUNK_SIZE, op, end_param, start_line, file_size,
                 sha, total_content, metaLog, is_git_repo, gitLog>>

\* get_file_content has its content: the content route answers with it,
\* get_lines_by_range splits it and slices.
ContentReturn(content) ==
  /\ pc' = "done"
  /\ response' =
       IF op = "content"
       THEN [NoResponse EXCEPT !.status = 200, !.kind = "content",
                               !.content = content]
       ELSE [NoResponse EXCEPT !.status = 200, !.kind = "lines",
                               !.lines = Slice(splitlines(content, FALSE),
                                               start_line, end_line),
                               !.max_lines = total_lines]

\* get_file_content, lines 244-266: the metadata fetch.
ContentMetadata ==
  /\ pc = "content_meta"
  /\ \E status \in MetaStatuses :
       LET m == UpstreamMetadata(status) IN
       /\ metaLog' = Append(metaLog, MetaEntry(m, "content"))
       /\ IF ~github_request(status).ok
          THEN /\ pc' = "error"
               /\ response' = MetadataError(status)
               /\ UNCHANGED <<file_size, sha, start_byte, total_content>>
          ELSE /\ file_size' = m.size
               /\ sha' = m.sha
               /\ total_content' = <<>>
               /\ start_byte' = 0
               /\ IF LoopContinues(0, m.size)
                  THEN /\ pc' = "content_loop"
                       /\ UNCHANGED response
                  ELSE ContentReturn(<<>>)
  /\ UNCHANGED <<blobs, rangeSupport, CHUNK_SIZE, op, end_param, start_line, end_line,
                 total_lines, carry_over, chunkLog, yielded, fetched,
                 failedFetch, is_git_repo, gitLog>>

\* get_file_content, lines 268-273: one turn of the loop.
ContentChunk ==
  /\ pc = "content_loop"
  /\ \E fail \in BOOLEAN :
       LET resp == UpstreamBlob(sha, start_byte, CHUNK_SIZE, fail)
           chunk == get_file_chunk(resp)
           content == total_content \o chunk.text
           offset == NextOffset(start_byte)
       IN
       /\ chunkLog' = Append(chunkLog, ChunkEntry(resp, "content"))
       /\ failedFetch' = (failedFetch \/ FetchIsBad(resp))
       /\ IF ~chunk.ok
          THEN /\ pc' = "error"
               /\ response' = ErrorResponse(500, chunk.detail)
               /\ UNCHANGED <<start_byte, total_content>>
          ELSE /\ total_content' = content
               /\ start_byte' = offset
               /\ IF LoopContinues(offset, file_size)
                  THEN /\ pc' = "content_loop"
                       /\ UNCHANGED response
                  ELSE ContentReturn(content)
  /\ UNCHANGED <<blobs, rangeSupport, CHUNK_SIZE, op, end_param, start_line, end_line,
                 file_size, sha, total_lines, carry_over, metaLog, yielded,
                 fetched, is_git_repo, gitLog>>

\* ----------------------------------------------------------- log push ---
GitCommands == <<"git add app.log", "git commit", "git push origin main">>

SuccessMessage == "Logs have been successfully committed and pushed to GitHub."

\* commit_and_push_logs: the exit statuses of os.system are not looked at.
commit_and_push_logs(exists) ==
  IF ~exists
  THEN [ok |-> FALSE, commands |-> <<>>, status_code |-> 500,
        text |-> "Error committing logs: Current directory is not a Git repository."]
  ELSE [ok |-> TRUE, commands |-> GitCommands, status_code |-> 200,
        text |-> SuccessMessage]

\* Variant of push_logs that lets the HTTPException through.
push_logs_raise(result) ==
  IF result.ok
  THEN [NoResponse EXCEPT !.status = 200, !.kind = "message",
                          !.detail = result.text]
  ELSE ErrorResponse(result.status_code, result.text)

\* push_logs: the HTTPException is caught and returned as a body.
push_logs(result) ==
  IF result.ok
  THEN [NoResponse EXCEPT !.status = 200, !.kind = "message",
                          !.detail = result.text]
  ELSE [NoResponse EXCEPT !.status = 200, !.kind = "error",
                          !.detail = result.text]

PushLogs ==
  /\ pc = "idle"
  /\ \E exists \in BOOLEAN :
       LET result == commit_and_push_logs(exists) IN
       /\ is_git_repo' = IF exists THEN "yes" ELSE "no"
       /\ gitLog' = gitLog \o result.commands
       /\ response' = push_logs(result)
  /\ op' = "push_logs"
  /\ pc' = "done"
  /\ UNCHANGED <<blobs, rangeSupport, CHUNK_SIZE, end_param, start_line,
                 end_line, file_size, sha, start_byte, total_lines, carry_over,
                 total_content, metaLog, chunkLog, yielded, fetched,
                 failedFetch>>

\* ------------------------------------------------------ specification ---
Next ==
  \/ StartRequest
  \/ CountMetadata
  \/ CountChunk
  \/ ContentMetadata
  \/ ContentChunk
  \/ PushLogs
  \/ UpstreamReplace

Spec == Init /\ [][Next]_vars

\* ------------------------------------------------- what the claims use ---
\* The upstream honours ranges and the file was not replaced.
StableUpstream == rangeSupport /\ Len(blobs) = 1

\* Decoded content of the file the request was started on.
OriginalText == Decode(blobs[1]).text

\* The lines of the whole file, terminators kept, a final unterminated
\* segment being a line.
FullScan == splitlines(OriginalText, TRUE)

\* The counting scan of the request has run to its end.
CountScanDone ==
  /\ op \in {"max_lines", "lines"}
  /\ \/ pc \in {"content_meta", "content_loop", "done"}
     \/ pc = "error" /\ response.status = 400

\* The text of a sequence of lines.
RECURSIVE Concat(_)
Concat(ls) == IF ls = <<>> THEN <<>> ELSE Head(ls) \o Concat(Tail(ls))

EndsWithTerminator(l) == Len(l) > 0 /\ l[Len(l)] \in {"n", "r"}

ChunksOf(scan) ==
  Cardinality({j \in 1..Len(chunkLog) : chunkLog[j].scan = scan})

CeilDiv(a, b) == (a + b - 1) \div b

\* Number of complete lines in the text accumulated so far.
BufferedLines(text) ==
  IF text = <<>> THEN 0 ELSE Len(process_chunk(text, <<>>).lines)

\* C1: the count returned as max_lines equals the number of lines of the
\* whole file, a non-empty final segment without terminator counting as one.
C1_CountIsLineCount ==
  (StableUpstream /\ response.kind \in {"max_lines", "lines"})
    => response.max_lines = Len(FullScan)

\* C2: for 0 <= start_line <= end_line (end_line omitted or too large taken
\* as the total) get_lines returns the elements start_line <= i < min(end_line,
\* total) of the full-scan line buffer, terminators included.
C2_SliceOfLineBuffer ==
  (/\ StableUpstream
   /\ response.kind = "lines"
   /\ start_line >= 0
   /\ (end_param = None \/ start_line <= end_param))
    => response.lines =
         Slice(FullScan, start_line, ClampEnd(end_param, Len(FullScan)))

\* C3: a get_lines request is rejected with a RangeError (400) exactly when
\* start_line < 0 or start_line >= the file's total number of lines.
C3_RangeRejection ==
  (/\ StableUpstream
   /\ op = "lines"
   /\ pc \in {"done", "error"}
   /\ response.status \in {200, 400})
    => (response.status = 400
          <=> (start_line < 0 \/ start_line >= Len(FullScan)))

\* C4: the chunked scan completes without error for every chunk size and
\* yields what the scan of the whole file in one chunk yields.
C4_ChunkSizeIndependent ==
  StableUpstream =>
    /\ response.detail # "UnicodeDecodeError"
    /\ (CountScanDone /\ OriginalText # <<>>) =>
         /\ yielded = process_chunk(OriginalText, <<>>).lines
         /\ carry_over = process_chunk(OriginalText, <<>>).carry_over

\* C5: after every processed chunk the yielded lines followed by carry_over
\* are the decoded text fetched so far, every yielded line ends with a
\* terminator, carry_over holds no complete line, and at exhaustion the
\* concatenation is the content of the scanned file.
C5_Reassembly ==
  op \in {"max_lines", "lines"} =>
    /\ Concat(yielded) \o carry_over = fetched
    /\ \A i \in 1..Len(yielded) : EndsWithTerminator(yielded[i])
    /\ \A j \in 1..Len(carry_over) : carry_over[j] \notin {"n", "r"}
    /\ (CountScanDone /\ ~failedFetch) =>
         Concat(yielded) \o carry_over = Decode(blobs[metaLog[1].sha]).text

\* C6: a metadata fetch answered 404 fails the request with 404 and no chunk
\* is fetched by the scan it belongs to (none at all when it is the first).
C6_NotFound ==
  \A i \in 1..Len(metaLog) :
    metaLog[i].status_code = 404 =>
      /\ pc = "error"
      /\ response.kind = "error"
      /\ response.status = 404
      /\ i = Len(metaLog)
      /\ ChunksOf(metaLog[i].scan) = 0
      /\ (i = 1 => chunkLog = <<>>)

C6_Witness ==
  /\ op = "lines"
  /\ pc = "error"
  /\ Len(metaLog) = 1
  /\ metaLog[1].status_code = 404

\* C7: once a chunk fetch has failed the request is in error, carries no
\* count, no lines and no content, and fetches no further chunk.
C7_FailedFetchFailsRequest ==
  /\ [](failedFetch =>
          /\ pc = "error"
          /\ response.kind = "error"
          /\ response.status = 500
          /\ response.max_lines = None
          /\ response.lines = <<>>
          /\ response.content = <<>>)
  /\ [][failedFetch => chunkLog' = chunkLog]_vars

C7_Witness ==
  /\ failedFetch
  /\ pc = "error"
  /\ op = "lines"
  /\ total_content # <<>>

\* C8 as claimed: in a get_lines request no chunk is fetched once the lines
\* buffered so far number at least end_line.
C8_EagerStop ==
  [][(/\ op = "lines"
      /\ StableUpstream
      /\ 0 <= start_line
      /\ 1 <= end_param
      /\ start_line <= end_param
      /\ \/ pc = "count_loop" /\ total_lines >= end_param
         \/ pc = "content_loop" /\ BufferedLines(total_content) >= end_param)
       => chunkLog' = chunkLog]_vars

\* C8 as amended: there is no eager stop; every scan that ends without a
\* failure has fetched ceil(size / CHUNK_SIZE) chunks, whatever end_line is.
C8_FullConsumption ==
  \A i \in 1..Len(metaLog) :
    (\/ metaLog[i].scan = "count" /\ CountScanDone
     \/ metaLog[i].scan = "content" /\ pc = "done")
      => ChunksOf(metaLog[i].scan) = CeilDiv(metaLog[i].size, CHUNK_SIZE)

C8_Witness ==
  /\ op = "lines"
  /\ pc = "done"
  /\ StableUpstream
  /\ end_param = 1
  /\ Len(blobs[1]) > CHUNK_SIZE
  /\ blobs[1][CHUNK_SIZE] = "n"
  /\ ChunksOf("content") >= 2

\* C9 as claimed: every log push is answered 200 with the success message
\* after git add, git commit and git push.
C9_AlwaysSuccessMessage ==
  (op = "push_logs" /\ pc = "done") =>
    /\ response.status = 200
    /\ response.kind = "message"
    /\ response.detail = SuccessMessage
    /\ gitLog = GitCommands

\* C9 as amended: every log push is answered 200; in a Git repository the
\* body is the success message and add, commit, push were run in that order,
\* otherwise the body is an error and no git command was run.
C9_PushLogs ==
  (op = "push_logs" /\ pc = "done") =>
    /\ response.status = 200
    /\ IF is_git_repo = "yes"
       THEN /\ response.kind = "message"
            /\ response.detail = SuccessMessage
            /\ gitLog = GitCommands
       ELSE /\ response.kind = "error"
            /\ response.detail # SuccessMessage
            /\ gitLog = <<>>

C9_Witness ==
  /\ op = "push_logs"
  /\ pc = "done"
  /\ is_git_repo = "no"
  /\ response.kind = "error"

\* C10: a request fetches the metadata exactly once and every chunk fetch
\* uses the size and hash of that fetch.
C10_SingleMetadataFetch ==
  op \in Routes =>
    /\ Len(metaLog) <= 1
    /\ (pc = "done" => Len(metaLog) = 1)
    /\ \A j \in 1..Len(chunkLog) :
         /\ chunkLog[j].sha = metaLog[1].sha
         /\ chunkLog[j].size = metaLog[1].size

\* The chunk fetches of one scan, in the order they were issued.
FetchesOf(scan) ==
  SelectSeq(chunkLog, LAMBDA e : e.scan = scan)

\* C11: in every scan the offset starts at 0, never decreases and is always
\* a multiple of CHUNK_SIZE; the k-th fetch of a scan (k = 0, 1, ...) starts
\* at k * CHUNK_SIZE, and every fetch starts below the file size.
C11_ChunkCursor ==
  /\ [](/\ start_byte >= 0
         /\ start_byte % CHUNK_SIZE = 0
         /\ \A scan \in {"count", "content"} :
              \A k \in 1..Len(FetchesOf(scan)) :
                /\ FetchesOf(scan)[k].start_byte = (k - 1) * CHUNK_SIZE
                /\ FetchesOf(scan)[k].start_byte < FetchesOf(scan)[k].size)
  /\ [][(pc = pc' /\ pc \in {"count_loop", "content_loop"})
          => /\ start_byte' >= start_byte
             /\ (chunkLog' # chunkLog => start_byte' > start_byte)]_vars
  /\ [][(pc \in {"count_meta", "content_meta"}
           /\ pc' \in {"count_loop", "content_loop"})
          => start_byte' = 0]_vars

\* A scan of at least three chunks is under way.
C11_Witness ==
  /\ pc = "content_loop"
  /\ start_byte = 2 * CHUNK_SIZE
  /\ Len(FetchesOf("content")) = 2
  /\ Len(FetchesOf("count")) >= 2

\* The line-count requests alone.  The scan reads the blob by its hash, so
\* a replacement of the file upstream does not reach it and is left out
\* here.  Every upstream call of a running request returns, so the handler
\* takes its next step.
CountNext ==
  \/ StartCount
  \/ CountMetadata
  \/ CountChunk

LiveSpec ==
  /\ Init
  /\ [][CountNext]_vars
  /\ WF_vars(CountMetadata)
  /\ WF_vars(CountChunk)

\* C12: a line-count request ends (answered or failed), having fetched at
\* most ceil(size / CHUNK_SIZE) chunks, none for a file of size 0, and
\* fetches nothing once it is answered.
C12_CountTerminates ==
  /\ (op = "max_lines") ~> (pc \in {"done", "error"})
  /\ [](op = "max_lines" =>
          /\ (metaLog = <<>> => chunkLog = <<>>)
          /\ (metaLog # <<>> =>
                /\ Len(chunkLog) <= CeilDiv(metaLog[1].size, CHUNK_SIZE)
                /\ (metaLog[1].size = 0 => chunkLog = <<>>)
                /\ (pc = "done" =>
                      Len(chunkLog) = CeilDiv(metaLog[1].size, CHUNK_SIZE))))
  /\ [][(op = "max_lines" /\ pc = "done") => chunkLog' = chunkLog]_vars

C12_Witness ==
  /\ op = "max_lines"
  /\ pc = "done"
  /\ Len(chunkLog) >= 2
  /\ Len(chunkLog) = CeilDiv(file_size, CHUNK_SIZE)
  /\ file_size % CHUNK_SIZE # 0

\* C13: a chunk answered 206 or 200 is accepted and any other status fails
\* the request; a chunk answered 200 is the last of its scan, and the content
\* of the file is taken once.
C13_FullContentIsFinal ==
  /\ \A j \in 1..Len(chunkLog) :
       chunkLog[j].status_code \notin {200, 206} => (failedFetch /\ pc = "error")
  /\ \A scan \in {"count", "content"} :
       \A k \in 1..(Len(FetchesOf(scan)) - 1) :
         FetchesOf(scan)[k].status_code # 200
  /\ (op = "content" /\ pc = "done") =>
       response.content = Decode(blobs[metaLog[1].sha]).text

\* C14: the max_lines and the lines of one successful get_lines response
\* come from one version of the file: max_lines is its line count (with or
\* without a final unterminated line) and lines is a slice of its lines.
C14_SingleVersion ==
  (response.kind = "lines" /\ rangeSupport) =>
    \E v \in 1..Len(blobs) :
      LET text == Decode(blobs[v]).text
          all == splitlines(text, FALSE)
      IN /\ response.max_lines \in {BufferedLines(text), Len(all)}
         /\ \E lo \in 0..Len(all), hi \in 0..Len(all) :
              response.lines = Slice(all, lo, hi)
====
